---- MODULE Spec2Model ----
(***************************************************************************)
(* Chain Reaction (src/src/App.jsx): the React component's state, its      *)
(* click handler and the timer callback that steps a cascade wave by wave. *)
(***************************************************************************)
EXTENDS Integers, Sequences, FiniteSets, TLC

\* ------------------------------------------------------------------ bounds
\* Clicks are drawn from the ClickCells positions nearest the (0, 0) corner
\* (by anti-diagonal, then by row); the board itself is always the full
\* ROWS x COLS grid.
ClickCells == 5
\* Accepted moves per game explored.
MaxMoves == 10

\* ------------------------------------------------------- program constants
ROWS == 6
COLS == 9

directions == << <<-1, 0>>, <<1, 0>>, <<0, -1>>, <<0, 1>> >>

players == << "red", "blue" >>
NumPlayers == Len(players)
PlayerIds == 0 .. (NumPlayers - 1)

Pos == (0 .. (ROWS - 1)) \X (0 .. (COLS - 1))
ClickRank(p) == ((p[1] + p[2]) * (p[1] + p[2] + 1)) \div 2 + p[1]
ClickPos == {p \in Pos : ClickRank(p) < ClickCells}

\* JavaScript null in a grid slot
Null == [player |-> -1, count |-> 0]

\* mutant: the bounds test admits row ROWS and column COLS
InBounds_OffByOne(nr, nc) == nr >= 0 /\ nr <= ROWS /\ nc >= 0 /\ nc <= COLS

\* nr >= 0 && nr < ROWS && nc >= 0 && nc < COLS
InBounds(nr, nc) == nr >= 0 /\ nr < ROWS /\ nc >= 0 /\ nc < COLS

\* directions.reduce((count, [dr, dc]) => ..., 0), from index i on
RECURSIVE reduceDirections(_, _, _, _)
reduceDirections(r, c, i, count) ==
    IF i > Len(directions) THEN count
    ELSE LET nr == r + directions[i][1]
             nc == c + directions[i][2]
         IN reduceDirections(r, c, i + 1,
                IF InBounds(nr, nc) THEN count + 1 ELSE count)

getCriticalMass(r, c) == reduceDirections(r, c, 1, 0)

initialGrid == [p \in Pos |-> Null]

\* mutant: the loop over directions stops before the last direction
RECURSIVE pushTransfers_SkipLast(_, _, _, _, _)
pushTransfers_SkipLast(queue, x, y, player, i) ==
    IF i >= Len(directions) THEN queue
    ELSE LET nx == x + directions[i][1]
             ny == y + directions[i][2]
         IN pushTransfers_SkipLast(
                IF InBounds(nx, ny)
                THEN Append(queue, [from |-> <<x, y>>, to |-> <<nx, ny>>,
                                    player |-> player])
                ELSE queue,
                x, y, player, i + 1)

\* the for-loop over directions that pushes one transfer per in-bounds
\* neighbour of (x, y), in the order of `directions`
RECURSIVE pushTransfers(_, _, _, _, _)
pushTransfers(queue, x, y, player, i) ==
    IF i > Len(directions) THEN queue
    ELSE LET nx == x + directions[i][1]
             ny == y + directions[i][2]
         IN pushTransfers(
                IF InBounds(nx, ny)
                THEN Append(queue, [from |-> <<x, y>>, to |-> <<nx, ny>>,
                                    player |-> player])
                ELSE queue,
                x, y, player, i + 1)

\* mutant: a cell explodes only above its critical mass
AtCritical_Strict(cell, critical) == cell.count > critical

\* mutant: a cell explodes one orb early
AtCritical_OneEarly(cell, critical) == cell.count >= critical - 1

\* cell && cell.count >= critical  (line 90); line 168 has no null test
AtCritical(cell, critical) == cell.count >= critical

\* enqueueExplosion(x, y) on the working grid and queue of processExplosions.
\* cleared: the cells set to null to fill the queue, with the charge each
\* held (ghost).
enqueueExplosion(w, x, y, player) ==
    LET cell == w.grid[<<x, y>>]
        critical == getCriticalMass(x, y)
    IN IF cell # Null /\ AtCritical(cell, critical)
       THEN [grid |-> [w.grid EXCEPT ![<<x, y>>] = Null],
             queue |-> pushTransfers(w.queue, x, y, player, 1),
             cleared |-> Append(w.cleared,
                                [pos |-> <<x, y>>, count |-> cell.count])]
       ELSE w

\* mutant: an occupied destination keeps its owner
RECURSIVE applyWave_KeepOwner(_, _, _, _)
applyWave_KeepOwner(g, wave, player, i) ==
    IF i > Len(wave) THEN g
    ELSE LET to == wave[i].to
             cell == g[to]
         IN applyWave_KeepOwner(
                [g EXCEPT ![to] =
                    IF cell # Null
                    THEN [cell EXCEPT !.count = cell.count + 1]
                    ELSE [player |-> player, count |-> 1]],
                wave, player, i + 1)

\* first loop of the timer callback: apply every transfer of the wave
RECURSIVE applyWave(_, _, _, _)
applyWave(g, wave, player, i) ==
    IF i > Len(wave) THEN g
    ELSE LET to == wave[i].to
             cell == g[to]
         IN applyWave(
                [g EXCEPT ![to] =
                    IF cell # Null
                    THEN [player |-> player, count |-> cell.count + 1]
                    ELSE [player |-> player, count |-> 1]],
                wave, player, i + 1)

\* second loop of the timer callback: enqueue the explosions of the next
\* wave.  Reading .count of a slot already cleared in this loop throws a
\* TypeError, which ends the callback (threw = TRUE).
RECURSIVE enqueueNext(_, _, _, _)
enqueueNext(w, wave, player, i) ==
    IF i > Len(wave) \/ w.threw THEN w
    ELSE LET to == wave[i].to
             cell == w.grid[to]
             critical == getCriticalMass(to[1], to[2])
         IN IF cell = Null
            THEN [w EXCEPT !.threw = TRUE]
            ELSE enqueueNext(
                    IF AtCritical(cell, critical)
                    THEN [w EXCEPT
                            !.grid = [w.grid EXCEPT ![to] = Null],
                            !.queue = pushTransfers(w.queue, to[1], to[2],
                                                    player, 1),
                            !.cleared = Append(w.cleared,
                                [pos |-> to, count |-> cell.count])]
                    ELSE w,
                    wave, player, i + 1)

\* mutant: a win is never detected
checkWin_Never(g, player) == FALSE

\* mutant: the mover wins as soon as the mover is alive
checkWin_MoverAlive(g, player) ==
    LET alive == {g[p].player : p \in {q \in Pos : g[q] # Null}}
    IN Cardinality(alive) >= 1 /\ player \in alive

\* checkWin(grid, player)
checkWin(g, player) ==
    LET alive == {g[p].player : p \in {q \in Pos : g[q] # Null}}
    IN Cardinality(alive) = 1 /\ player \in alive

\* ------------------------------------------------------------------- state
VARIABLES
    grid,           \* useState(initialGrid)
    currentPlayer,  \* useState(0)
    hasPlayed,      \* useState(players.map(() => false))
    gameOver,       \* useState(false)
    explosions,     \* useState([])
    processing,     \* useState(false)
    timers,         \* pending setTimeout callbacks, each with its closure
    waveLog,        \* the waves started by the last accepted click (ghost)
    moves,          \* number of clicks accepted so far (ghost)
    lastMove,       \* the last accepted click and the board it met (ghost)
    lastEvent       \* which handler ran last and how it returned (ghost)

vars == <<grid, currentPlayer, hasPlayed, gameOver, explosions, processing,
          timers, waveLog, moves, lastMove, lastEvent>>

\* the React state as one record, threaded through a handler's setState calls
ReactState ==
    [grid |-> grid, currentPlayer |-> currentPlayer, hasPlayed |-> hasPlayed,
     gameOver |-> gameOver, explosions |-> explosions,
     processing |-> processing, timers |-> timers, waveLog |-> waveLog]

\* currentWave.map(({from, to}) => ({from, to, key, player})); the key's
\* Date.now() part is the ordinal n of the wave: two waves of a cascade are
\* at least 300 ms apart, so their timestamps differ
newExplosions(wave, player, n) ==
    [i \in 1 .. Len(wave) |->
        [from |-> wave[i].from, to |-> wave[i].to,
         key |-> <<wave[i].from, wave[i].to, n>>, player |-> player]]

\* mutant: the win test ignores allPlayersStarted
DeclaresWin_WinnerOnly(allPlayersStarted, winner) == winner

\* allPlayersStarted && winner  (line 70)
DeclaresWin(allPlayersStarted, winner) == allPlayersStarted /\ winner

\* the onComplete callback built by handleClick; hp and player are the
\* hasPlayed and currentPlayer its closure captured at click time
onComplete(st, finalGrid, player, hp) ==
    LET updatedHasPlayed == [hp EXCEPT ![player] = TRUE]
        allPlayersStarted == \A i \in PlayerIds : updatedHasPlayed[i]
        winner == checkWin(finalGrid, player)
    IN IF DeclaresWin(allPlayersStarted, winner)
       THEN [st EXCEPT !.hasPlayed = updatedHasPlayed,
                       !.gameOver = TRUE,
                       !.processing = FALSE]
       ELSE [st EXCEPT !.hasPlayed = updatedHasPlayed,
                       !.currentPlayer = (player + 1) % NumPlayers,
                       !.processing = FALSE]

\* stepThroughQueue(queue, gridCopy, player, onComplete); n is the ordinal
\* of the wave this call would start, cleared the cells nulled to fill queue
stepThroughQueue(st, queue, gridCopy, player, hp, n, cleared) ==
    IF Len(queue) = 0
    THEN onComplete([st EXCEPT !.grid = gridCopy], gridCopy, player, hp)
    ELSE [st EXCEPT
            !.explosions = st.explosions \o newExplosions(queue, player, n),
            !.timers = st.timers \cup
                {[currentWave |-> queue, gridCopy |-> gridCopy,
                  player |-> player, hasPlayed |-> hp, n |-> n,
                  cleared |-> cleared]},
            !.waveLog = Append(st.waveLog, queue)]

\* processExplosions(initialGrid, r, c, player, onComplete)
processExplosions(st, startGrid, r, c, player, hp) ==
    LET w == enqueueExplosion(
                 [grid |-> startGrid, queue |-> <<>>, cleared |-> <<>>],
                 r, c, player)
    IN stepThroughQueue([st EXCEPT !.grid = w.grid], w.queue, w.grid,
                        player, hp, 1, w.cleared)

\* mutants: one of the two tests of line 45 is missing
Busy_GameOverOnly(isProcessing, isOver) == isOver
Busy_ProcessingOnly(isProcessing, isOver) == isProcessing

\* processing || gameOver  (line 45)
Busy(isProcessing, isOver) == isProcessing \/ isOver

\* mutant: the ownership test of line 48 is missing
OwnedByOther_Never(cell, player) == FALSE

\* cell && cell.player !== currentPlayer  (line 48)
OwnedByOther(cell, player) == cell # Null /\ cell.player # player

\* lines 50-58: copy the grid and place or increment at (r, c)
placeOrb(g, r, c, player) ==
    [g EXCEPT ![<<r, c>>] =
        IF g[<<r, c>>] # Null
        THEN [g[<<r, c>>] EXCEPT !.count = g[<<r, c>>].count + 1]
        ELSE [player |-> player, count |-> 1]]

\* the state handleClick(r, c) leaves once it is accepted
acceptClick(st, r, c) ==
    processExplosions([st EXCEPT !.processing = TRUE, !.waveLog = <<>>],
                      placeOrb(st.grid, r, c, st.currentPlayer),
                      r, c, st.currentPlayer, st.hasPlayed)

\* mutant: the filter keeps the wave's entries and drops the others
removeExplosions_Inverted(prev, mine) ==
    SelectSeq(prev, LAMBDA e : \E i \in 1 .. Len(mine) : mine[i].key = e.key)

\* prev.filter((e) => !newExplosions.some((ne) => ne.key === e.key))
removeExplosions(prev, mine) ==
    SelectSeq(prev,
              LAMBDA e : ~(\E i \in 1 .. Len(mine) : mine[i].key = e.key))

\* lines 140-182 of the timer callback t on its gridCopy: both loops
wavePass(t) ==
    enqueueNext([grid |-> applyWave(t.gridCopy, t.currentWave, t.player, 1),
                 queue |-> <<>>, cleared |-> <<>>, threw |-> FALSE],
                t.currentWave, t.player, 1)

\* the state the timer callback t leaves.  When line 168 throws, the
\* setExplosions and setGrid calls made before it still take effect, the
\* recursion of line 185 is never reached and no timer is left.
timerCallback(st, t) ==
    LET applied == applyWave(t.gridCopy, t.currentWave, t.player, 1)
        mine == newExplosions(t.currentWave, t.player, t.n)
        st1 == [st EXCEPT
                  !.timers = st.timers \ {t},
                  !.explosions = removeExplosions(st.explosions, mine),
                  !.grid = applied]
        w == wavePass(t)
    IN IF w.threw THEN st1
       ELSE stepThroughQueue(st1, w.queue, w.grid, t.player, t.hasPlayed,
                             t.n + 1, w.cleared)

Commit(st) ==
    /\ grid' = st.grid
    /\ currentPlayer' = st.currentPlayer
    /\ hasPlayed' = st.hasPlayed
    /\ gameOver' = st.gameOver
    /\ explosions' = st.explosions
    /\ processing' = st.processing
    /\ timers' = st.timers
    /\ waveLog' = st.waveLog

Init ==
    /\ grid = initialGrid
    /\ currentPlayer = 0
    /\ hasPlayed = [i \in PlayerIds |-> FALSE]
    /\ gameOver = FALSE
    /\ explosions = <<>>
    /\ processing = FALSE
    /\ timers = {}
    /\ waveLog = <<>>
    /\ moves = 0
    /\ lastMove = [grid |-> initialGrid, pos |-> <<0, 0>>, player |-> -1]
    /\ lastEvent = "init"

\* onClick={() => handleClick(r, c)}
handleClick(r, c) ==
    IF Busy(processing, gameOver)
    THEN /\ lastEvent' = "return45"
         /\ UNCHANGED <<grid, currentPlayer, hasPlayed, gameOver, explosions,
                        processing, timers, waveLog, moves, lastMove>>
    ELSE IF OwnedByOther(grid[<<r, c>>], currentPlayer)
    THEN /\ lastEvent' = "return48"
         /\ UNCHANGED <<grid, currentPlayer, hasPlayed, gameOver, explosions,
                        processing, timers, waveLog, moves, lastMove>>
    ELSE /\ moves < MaxMoves
         /\ \E st \in {acceptClick(ReactState, r, c)} : Commit(st)
         /\ moves' = moves + 1
         /\ lastMove' = [grid |-> grid, pos |-> <<r, c>>,
                         player |-> currentPlayer]
         /\ lastEvent' = "accepted"

\* a pending setTimeout callback fires
Timer(t) ==
    /\ \E st \in {timerCallback(ReactState, t)} : Commit(st)
    /\ lastEvent' = IF wavePass(t).threw THEN "threw" ELSE "timer"
    /\ UNCHANGED <<moves, lastMove>>

Click == \E p \in ClickPos : handleClick(p[1], p[2])

Fire == \E t \in timers : Timer(t)

Next == Click \/ Fire

Spec == Init /\ [][Next]_vars

\* ------------------------------------------------------------ properties
AppState == <<grid, currentPlayer, hasPlayed, gameOver, processing, explosions>>

Owners(g) == {g[p].player : p \in {q \in Pos : g[q] # Null}}

AllMoved(hp) == \A i \in PlayerIds : hp[i]

RECURSIVE SumCounts(_, _)
SumCounts(g, S) ==
    IF S = {} THEN 0
    ELSE LET p == CHOOSE x \in S : TRUE
         IN g[p].count + SumCounts(g, S \ {p})

TotalCharge(g) == SumCounts(g, Pos)

RECURSIVE SumCleared(_, _)
SumCleared(cleared, i) ==
    IF i > Len(cleared) THEN 0
    ELSE cleared[i].count + SumCleared(cleared, i + 1)

\* the positions of the board orthogonally adjacent to p
Neighbours(p) ==
    {<<p[1] - 1, p[2]>>, <<p[1] + 1, p[2]>>,
     <<p[1], p[2] - 1>>, <<p[1], p[2] + 1>>} \cap Pos

\* a step that ends a move: its onComplete ran
SettleStep == lastEvent' \in {"accepted", "timer"} /\ ~processing'

\* C1: a click on a cell owned by a player other than currentPlayer changes
\* none of grid, currentPlayer, hasPlayed, gameOver, processing, explosions.
C1_OpponentCellRejected ==
    [][\A p \in ClickPos :
          (handleClick(p[1], p[2]) /\ grid[p] # Null
              /\ grid[p].player # currentPlayer)
          => UNCHANGED AppState]_vars

\* a click has just returned at line 48 from an idle, running game
C1_Witness ==
    /\ lastEvent = "return48"
    /\ ~processing /\ ~gameOver
    /\ \E p \in ClickPos : grid[p] # Null /\ grid[p].player # currentPlayer

\* C2: every accepted move runs to completion: no timer callback ends by an
\* exception, and a cascade in progress always has its next wave timer
\* pending, so the game is never left stuck in the resolving state.
C2_CascadeNeverStuck == lastEvent # "threw" /\ (processing => timers # {})

\* C3: for every wave, each cell cleared to produce it held exactly its
\* capacity, and the charge cleared equals the charge the wave adds to its
\* destinations when it is applied.
C3_WaveConservesCharge ==
    \A t \in timers :
        /\ \A i \in 1 .. Len(t.cleared) :
              t.cleared[i].count =
                  Cardinality(Neighbours(t.cleared[i].pos))
        /\ SumCleared(t.cleared, 1) =
              TotalCharge(applyWave(t.gridCopy, t.currentWave, t.player, 1))
                  - TotalCharge(t.gridCopy)

\* a wave of two exploding cells is pending
C3_Witness ==
    \E t \in timers : Len(t.cleared) >= 2 /\ Len(t.currentWave) >= 5

\* C4: gameOver is false while some player has not completed a move.
C4_WinSuppressed == (\E i \in PlayerIds : ~hasPlayed[i]) => ~gameOver

\* player 0's first move has settled: one owner on the board, no game over
C4_Witness ==
    /\ moves = 1 /\ ~processing /\ lastEvent = "accepted"
    /\ hasPlayed[0] /\ ~hasPlayed[1]
    /\ Owners(grid) = {0}
    /\ ~gameOver /\ currentPlayer = 1

\* C5: when a move settles, if every player has moved and exactly one owner
\* remains then gameOver becomes true and currentPlayer stays that owner;
\* otherwise gameOver stays false and the turn passes to the next player.
\* No settled single-owner board with all players moved awaits a move.
C5_WinOrAdvance ==
    /\ [][SettleStep =>
            IF AllMoved(hasPlayed') /\ Cardinality(Owners(grid')) = 1
            THEN /\ gameOver'
                 /\ currentPlayer' = currentPlayer
                 /\ Owners(grid') = {currentPlayer'}
            ELSE /\ ~gameOver'
                 /\ currentPlayer' = (currentPlayer + 1) % NumPlayers]_vars
    /\ [](~processing /\ ~gameOver /\ AllMoved(hasPlayed)
            => Cardinality(Owners(grid)) # 1)

\* a cascade of at least two waves has ended the game
C5_Witness ==
    /\ gameOver /\ ~processing /\ lastEvent = "timer"
    /\ Len(waveLog) >= 2
    /\ Owners(grid) = {currentPlayer}

\* C6: while processing is true every click is ignored and changes no state,
\* and at most one wave timer is pending, only during a cascade.
C6_MovesSerialized ==
    /\ [][\A p \in ClickPos :
            (handleClick(p[1], p[2]) /\ processing)
            => UNCHANGED <<AppState, timers, waveLog, moves>>]_vars
    /\ [](Cardinality(timers) <= 1 /\ (timers # {} => processing))

\* a click was ignored between the second and the third wave of a cascade
C6_Witness ==
    /\ processing /\ lastEvent = "return45"
    /\ \E t \in timers : t.n = 2

\* C7: once gameOver is true it stays true, and a click then leaves grid,
\* currentPlayer, hasPlayed and processing unchanged.
C7_GameOverTerminal ==
    /\ [][gameOver => gameOver']_vars
    /\ [][\A p \in ClickPos :
            (handleClick(p[1], p[2]) /\ gameOver)
            => UNCHANGED <<grid, currentPlayer, hasPlayed, processing>>]_vars

\* a click was ignored after the game ended
C7_Witness == gameOver /\ lastEvent = "return45" /\ ~processing

\* C8: whenever a wave is applied and a destination of it held exactly
\* capacity minus one before, that destination explodes in the very next
\* wave: it is cleared and the next wave carries one transfer from it to
\* each of its in-bounds neighbours.
C8_PrimedNeighbourExplodesNext ==
    [][\A t \in timers :
          Timer(t) =>
            \A i \in 1 .. Len(t.currentWave) :
              LET nb == t.currentWave[i].to
              IN t.gridCopy[nb].count = Cardinality(Neighbours(nb)) - 1
                 => \E u \in timers' :
                      /\ u.n = t.n + 1
                      /\ u.gridCopy[nb] = Null
                      /\ \A q \in Neighbours(nb) :
                            \E j \in 1 .. Len(u.currentWave) :
                              u.currentWave[j] =
                                [from |-> nb, to |-> q, player |-> t.player]]_vars

\* C9: a move that raises corner (0,0) to 2 starts one wave of exactly the
\* two transfers to (1,0) and (0,1); if neither destination reaches its
\* capacity the cascade ends with that wave, (0,0) empty and each destination
\* owned by the mover with one more orb than before.
C9_CornerExplosion ==
    /\ [][(handleClick(0, 0) /\ lastEvent' = "accepted"
             /\ grid[<<0, 0>>].count = 1)
          => /\ processing'
             /\ waveLog' =
                  << << [from |-> <<0, 0>>, to |-> <<1, 0>>,
                         player |-> currentPlayer],
                        [from |-> <<0, 0>>, to |-> <<0, 1>>,
                         player |-> currentPlayer] >> >>
             /\ \E t \in timers' :
                  /\ timers' = {t}
                  /\ t.currentWave = waveLog'[1]
                  /\ t.n = 1]_vars
    /\ [][\A t \in timers :
            (/\ Timer(t)
             /\ t.n = 1
             /\ t.currentWave[1].from = <<0, 0>>
             /\ t.gridCopy[<<0, 1>>].count + 1 < getCriticalMass(0, 1)
             /\ t.gridCopy[<<1, 0>>].count + 1 < getCriticalMass(1, 0))
            => /\ ~processing' /\ timers' = {} /\ explosions' = <<>>
               /\ Len(waveLog') = 1 /\ Len(waveLog'[1]) = 2
               /\ grid'[<<0, 0>>] = Null
               /\ \A d \in {<<0, 1>>, <<1, 0>>} :
                     grid'[d] = [player |-> t.player,
                                 count |-> t.gridCopy[d].count + 1]
               /\ \A q \in Pos \ {<<0, 0>>, <<0, 1>>, <<1, 0>>} :
                     grid'[q] = t.gridCopy[q]]_vars

\* the corner exploded in a one-wave cascade onto an occupied (0,1), which
\* changed owner, and an empty (1,0)
C9_Witness ==
    /\ lastEvent = "timer" /\ ~processing
    /\ Len(waveLog) = 1 /\ waveLog[1][1].from = <<0, 0>>
    /\ grid[<<0, 0>>] = Null
    /\ grid[<<0, 1>>].count = 2
    /\ grid[<<1, 0>>].count = 1

\* C10: getCriticalMass(r, c) is the number of in-bounds orthogonal
\* neighbours of (r, c): 2 at the four corners, 3 on the other edge cells,
\* 4 in the interior; and a cell that explodes emits exactly that many
\* transfers.
C10_CriticalMass ==
    /\ \A p \in Pos :
          LET onRowEdge == p[1] = 0 \/ p[1] = ROWS - 1
              onColEdge == p[2] = 0 \/ p[2] = COLS - 1
              m == getCriticalMass(p[1], p[2])
          IN /\ m = Cardinality(Neighbours(p))
             /\ m = IF onRowEdge /\ onColEdge THEN 2
                    ELSE IF onRowEdge \/ onColEdge THEN 3
                    ELSE 4
    /\ \A t \in timers :
          \A i \in 1 .. Len(t.cleared) :
              LET f == t.cleared[i].pos
              IN Cardinality({j \in 1 .. Len(t.currentWave) :
                                t.currentWave[j].from = f})
                     = getCriticalMass(f[1], f[2])

\* a corner, an edge cell and an interior cell have each exploded with
\* getCriticalMass transfers
C10_Witness ==
    \A k \in {2, 3, 4} :
        \E w \in 1 .. Len(waveLog) :
            \E i \in 1 .. Len(waveLog[w]) :
                LET f == waveLog[w][i].from
                IN /\ getCriticalMass(f[1], f[2]) = k
                   /\ Cardinality({j \in 1 .. Len(waveLog[w]) :
                                     waveLog[w][j].from = f}) = k

\* the whole cascade of a move computed at once from the board the click
\* met: the waves in order, the board left, and whether line 168 threw
RECURSIVE runWaves(_, _, _, _)
runWaves(g, queue, player, log) ==
    IF Len(queue) = 0 THEN [grid |-> g, waves |-> log, threw |-> FALSE]
    ELSE LET w == wavePass([gridCopy |-> g, currentWave |-> queue,
                            player |-> player])
         IN IF w.threw
            THEN [grid |-> applyWave(g, queue, player, 1),
                  waves |-> Append(log, queue), threw |-> TRUE]
            ELSE runWaves(w.grid, w.queue, player, Append(log, queue))

resolveCascade(board, pos, player) ==
    LET w == enqueueExplosion(
                 [grid |-> placeOrb(board, pos[1], pos[2], player),
                  queue |-> <<>>, cleared |-> <<>>],
                 pos[1], pos[2], player)
    IN runWaves(w.grid, w.queue, player, <<>>)

IsPrefix(a, b) == Len(a) <= Len(b) /\ SubSeq(b, 1, Len(a)) = a

\* C11: the waves and the final board of a move are a function of the board
\* the click met, the mover and the position: whatever clicks and timer
\* firings interleave, the waves started so far are a prefix of that
\* function's waves, and once the move has ended (settled, or stopped by the
\* exception) the wave list and the board are exactly its result.
C11_Deterministic ==
    moves > 0 =>
        LET R == resolveCascade(lastMove.grid, lastMove.pos, lastMove.player)
        IN /\ IsPrefix(waveLog, R.waves)
           /\ (timers = {} => waveLog = R.waves /\ grid = R.grid)
           /\ (timers = {} => (processing <=> R.threw))

\* a cascade of at least three waves has settled on the computed board
C11_Witness ==
    /\ ~processing /\ lastEvent = "timer" /\ Len(waveLog) >= 3
    /\ grid = resolveCascade(lastMove.grid, lastMove.pos,
                              lastMove.player).grid

\* C12: no internal error during a cascade: when the pending wave is applied
\* and its destinations are re-checked, every destination inspected is an
\* occupied cell, also when several transfers of the wave share a
\* destination that reaches capacity; and no cell is cleared twice for one
\* wave.
C12_RecheckReadsOccupiedCells ==
    \A t \in timers :
        /\ ~wavePass(t).threw
        /\ \A i, j \in 1 .. Len(t.cleared) :
              t.cleared[i].pos = t.cleared[j].pos => i = j

\* C13: when no cascade is in progress every occupied cell (r, c) holds at
\* least 1 and less than getCriticalMass(r, c); and in every state, also in
\* the working grid of a pending wave, no cell is stored with count <= 0.
C13_SettledBoardStable ==
    /\ ~processing =>
          \A p \in Pos :
              grid[p] # Null =>
                  /\ grid[p].count >= 1
                  /\ grid[p].count < getCriticalMass(p[1], p[2])
    /\ \A p \in Pos : grid[p] # Null => grid[p].count >= 1
    /\ \A t \in timers :
          \A p \in Pos : t.gridCopy[p] # Null => t.gridCopy[p].count >= 1

\* a cascade has settled leaving an edge cell one orb below its capacity
C13_Witness ==
    /\ ~processing /\ lastEvent = "timer" /\ Len(waveLog) >= 2
    /\ \E p \in Pos :
          grid[p] # Null /\ grid[p].count = getCriticalMass(p[1], p[2]) - 1
                         /\ grid[p].count >= 2

\* the simultaneous, set-based wave step (cascade engine, steps 2-5): apply
\* all transfers at once, then explode every distinct destination that is
\* unstable on the applied board
SetApplied(g, wave, player) ==
    [p \in Pos |->
        LET k == Cardinality({i \in 1 .. Len(wave) : wave[i].to = p})
        IN IF k = 0 THEN g[p]
           ELSE [player |-> player, count |-> g[p].count + k]]

SetUnstable(g, wave) ==
    {p \in {wave[i].to : i \in 1 .. Len(wave)} :
        g[p] # Null /\ g[p].count >= Cardinality(Neighbours(p))}

SetNextGrid(g, wave) ==
    [p \in Pos |-> IF p \in SetUnstable(g, wave) THEN Null ELSE g[p]]

SetNextWave(g, wave, player) ==
    {[from |-> p, to |-> q, player |-> player] :
        <<p, q>> \in {pq \in SetUnstable(g, wave) \X Pos :
                         pq[2] \in Neighbours(pq[1])}}

\* C14: for every pending wave, the sequential loops of the timer callback
\* produce the board and the next wave of the simultaneous set-based step:
\* the same cells explode, each once, whatever the order of the transfers.
C14_SequentialEqualsSimultaneous ==
    \A t \in timers :
        LET w == wavePass(t)
            a == SetApplied(t.gridCopy, t.currentWave, t.player)
        IN /\ ~w.threw
           /\ w.grid = SetNextGrid(a, t.currentWave)
           /\ {w.queue[i] : i \in 1 .. Len(w.queue)}
                  = SetNextWave(a, t.currentWave, t.player)
           /\ Len(w.queue)
                  = Cardinality(SetNextWave(a, t.currentWave, t.player))

TransfersTo(wave, p) == Cardinality({i \in 1 .. Len(wave) : wave[i].to = p})

Sources(wave) == {wave[i].from : i \in 1 .. Len(wave)}

\* C15: when a wave is applied, every destination gains exactly the number
\* of transfers of the wave that target it (an empty one counts from 0) and
\* is owned by the moving player, whoever owned it before; a cell that is
\* neither a destination nor an exploding cell of the wave is unchanged.
C15_WaveApplication ==
    [][\A t \in timers :
          Timer(t) =>
            \A p \in Pos :
              LET k == TransfersTo(t.currentWave, p)
              IN /\ k > 0 =>
                      grid'[p] = [player |-> t.player,
                                  count |-> t.gridCopy[p].count + k]
                 /\ (k = 0 /\ p \notin Sources(t.currentWave)) =>
                      grid'[p] = grid[p] /\ grid'[p] = t.gridCopy[p]
                 /\ (k = 0 /\ p \in Sources(t.currentWave)) =>
                      grid'[p] = Null]_vars

\* a one-wave cascade has settled in which a destination occupied by the
\* other player was captured
C15_Witness ==
    /\ ~processing /\ lastEvent = "timer" /\ Len(waveLog) = 1
    /\ \E i \in 1 .. Len(waveLog[1]) :
          LET d == waveLog[1][i].to
          IN /\ lastMove.grid[d] # Null
             /\ lastMove.grid[d].player # lastMove.player
             /\ grid[d] = [player |-> lastMove.player,
                            count |-> lastMove.grid[d].count + 1]

\* a wave with two transfers to one destination is pending
C15_TwoTransfersPending ==
    \E t \in timers : \E p \in Pos : TransfersTo(t.currentWave, p) = 2

\* C16: whenever no cascade is in progress, the total charge on the board
\* equals the number of moves accepted since the start of the game.
C16_ChargeEqualsMoves == ~processing => TotalCharge(grid) = moves

\* a cascade of at least two waves has settled after the sixth move or later
C16_Witness ==
    /\ ~processing /\ lastEvent = "timer" /\ Len(waveLog) >= 2
    /\ moves >= 6 /\ TotalCharge(grid) = moves

\* C17: when a move settles, the player who made it owns at least one cell
\* of the settled board; so a single remaining owner is the mover, and
\* checkWin(board, mover) holds exactly when one distinct owner remains.
C17_MoverSurvives ==
    [][SettleStep =>
         LET mover == lastMove'.player
         IN /\ mover = currentPlayer
            /\ mover \in Owners(grid')
            /\ Cardinality(Owners(grid')) = 1 => Owners(grid') = {mover}
            /\ checkWin(grid', mover) <=> Cardinality(Owners(grid')) = 1]_vars

\* a cascade has settled in which the clicked cell exploded and the mover,
\* holding no cell but captured ones, is the only owner left
C17_Witness ==
    /\ ~processing /\ lastEvent = "timer" /\ gameOver
    /\ grid[lastMove.pos] = Null
    /\ Owners(grid) = {lastMove.player}
    /\ \A p \in Pos :
          grid[p] # Null =>
              lastMove.grid[p] # Null
                  /\ lastMove.grid[p].player # lastMove.player

\* C18: in every state that awaits a move, some cell is empty or owned by
\* currentPlayer, so a click can be accepted; and once all players have
\* moved, currentPlayer owns at least one cell.
C18_NoStuckTurn ==
    (~processing /\ ~gameOver) =>
        /\ \E p \in Pos : grid[p] = Null \/ grid[p].player = currentPlayer
        /\ AllMoved(hasPlayed) => currentPlayer \in Owners(grid)

\* a cascade has captured cells of the player whose turn comes next, who
\* still owns one
C18_Witness ==
    /\ ~processing /\ ~gameOver /\ lastEvent = "timer"
    /\ AllMoved(hasPlayed)
    /\ currentPlayer \in Owners(grid)
    /\ \E p \in Pos :
          /\ lastMove.grid[p] # Null /\ lastMove.grid[p].player = currentPlayer
          /\ grid[p] # Null /\ grid[p].player = lastMove.player

\* C19: the explosion entries of a wave are in the list while its timer is
\* pending and are all removed when the wave is applied, so the list is
\* empty whenever no cascade is in progress.
C19_ExplosionsCleanedUp ==
    /\ [](~processing => explosions = <<>>)
    /\ [](\A t \in timers :
            \A i \in 1 .. Len(t.currentWave) :
              \E k \in 1 .. Len(explosions) :
                explosions[k] =
                    newExplosions(t.currentWave, t.player, t.n)[i])
    /\ [][\A t \in timers :
            Timer(t) =>
              \A i \in 1 .. Len(t.currentWave) :
                \A k \in 1 .. Len(explosions') :
                  explosions'[k].key #
                    newExplosions(t.currentWave, t.player, t.n)[i].key]_vars

\* a cascade of at least two waves has settled and left the list empty
C19_Witness ==
    /\ ~processing /\ lastEvent = "timer" /\ Len(waveLog) >= 2
    /\ explosions = <<>>

====
